---- MODULE Spec2Model ----
(***************************************************************************)
(* A model of the Pulse scene graph (src/src/scene.rs) and of the two      *)
(* systems that traverse it (src/src/systems.rs).                          *)
(*                                                                         *)
(* A Scene owns a set of live nodes, the parent-of and children-of maps,   *)
(* and a registry of type-erased component tables kept in two RefCells.    *)
(* Node identities come from the process-wide ALLOCATOR.                   *)
(***************************************************************************)
EXTENDS Integers, Sequences, FiniteSets, TLC

\* ---------------------------------------------------------------- bounds

\* Identities the allocator hands out before the model stops spawning, in the
\* hierarchy specification and in the component specification.
HierNodes == 3
CompNodes == 2
\* The same for the log, the borrow and the cascade specifications.
LogNodes == 1
\* The same for the table specification.
TableNodes == 2
BorrowNodes == 1
CascadeNodes == 3
\* The same for the two system specifications.
SysNodes == 3
\* The same for the frame specification.
FrameNodes == 2
\* The same for the allocator specification, over both scenes.
AllocNodes == 4
\* Longest event log a table may hold before the model stops appending.
MaxEvents == 3
\* Most guards returned by events::<T>() that are outstanding at once.
MaxGuards == 2

VARIABLES
    ALLOCATOR,          \* the static AtomicUsize
    nodes,              \* Scene.nodes
    parents,            \* Scene.parents
    children,           \* Scene.children
    component_indexes,  \* Scene.component_indexes (TypeId -> slot)
    component_tables,   \* Scene.component_tables (the erased tables)
    guards,             \* outstanding Ref guards on component_tables
    other_nodes,        \* the node set of a second Scene of the same process
    fetched,            \* per thread: the id Node::new returned, not yet inserted
    issued,             \* every node returned by a spawn, in order (history)
    last                \* the call that made the last step (history)

vars == <<ALLOCATOR, nodes, parents, children, component_indexes,
          component_tables, guards, other_nodes, fetched, issued, last>>

\* ------------------------------------------------------------- map helpers

MapInsert(f, k, v) == [x \in (DOMAIN f) \cup {k} |-> IF x = k THEN v ELSE f[x]]

MapRemove(f, k) == [x \in (DOMAIN f) \ {k} |-> f[x]]

EmptyMap == [x \in {} |-> 0]

\* Option<T>: None is the empty sequence, Some(v) the one-element sequence.
None == <<>>

Some(v) == <<v>>

\* Vec::remove(i) with a zero-based i: the later elements shift left.
VecRemove(s, i) == [j \in 1..(Len(s) - 1) |-> IF j <= i THEN s[j] ELSE s[j + 1]]

\* Vec::swap_remove(i) with a zero-based i: the last element takes slot i.
SwapRemove(s, i) ==
    [j \in 1..(Len(s) - 1) |-> IF j = i + 1 THEN s[Len(s)] ELSE s[j]]

\* ------------------------------------------------------------ component data

\* The component types of the model: the test suite's u32 and the four
\* components of components.rs.
Types == {"u32", "Visibility", "ComputedVisibility", "LocalTransform", "WorldTransform"}

Added(n) == [kind |-> "Added", node |-> n]

Modified(n) == [kind |-> "Modified", node |-> n]

Removed(n) == [kind |-> "Removed", node |-> n]

\* ComponentTable::<T>::new, tagged with the concrete type the box holds.
NewTable(T) == [ty |-> T, node_indexes |-> EmptyMap, items |-> <<>>, events |-> <<>>]

TableAddOverwrite(t, node, value) ==
    IF node \in DOMAIN t.node_indexes
    THEN [t EXCEPT !.items[t.node_indexes[node] + 1] = value]
    ELSE [t EXCEPT !.node_indexes = MapInsert(@, node, Len(t.items)),
                   !.items = Append(@, value),
                   !.events = Append(@, Added(node))]

TableAdd(t, node, value) ==
    IF node \in DOMAIN t.node_indexes
    THEN t
    ELSE [t EXCEPT !.node_indexes = MapInsert(@, node, Len(t.items)),
                   !.items = Append(@, value),
                   !.events = Append(@, Added(node))]

TableGet(t, node) ==
    IF node \in DOMAIN t.node_indexes
    THEN Some(t.items[t.node_indexes[node] + 1])
    ELSE None

TableSetAlways(t, node, value) ==
    IF node \in DOMAIN t.node_indexes
    THEN [t EXCEPT !.items[t.node_indexes[node] + 1] = value,
                   !.events = Append(@, Modified(node))]
    ELSE t

TableSet(t, node, value) ==
    IF node \in DOMAIN t.node_indexes
    THEN IF t.items[t.node_indexes[node] + 1] # value
         THEN [t EXCEPT !.items[t.node_indexes[node] + 1] = value,
                        !.events = Append(@, Modified(node))]
         ELSE t
    ELSE t

TableRemovePop(t, node) ==
    IF node \in DOMAIN t.node_indexes
    THEN LET index == t.node_indexes[node]
             rest == MapRemove(t.node_indexes, node)
             items1 == SubSeq(t.items, 1, Len(t.items) - 1)
             moved_index == Len(items1)
         IN  [t EXCEPT !.events = Append(@, Removed(node)),
                       !.items = items1,
                       !.node_indexes =
                           IF moved_index # index
                           THEN [m \in DOMAIN rest |->
                                    IF rest[m] = moved_index THEN index ELSE rest[m]]
                           ELSE rest]
    ELSE t

TableRemoveNoRepair(t, node) ==
    IF node \in DOMAIN t.node_indexes
    THEN [t EXCEPT !.events = Append(@, Removed(node)),
                   !.items = SwapRemove(@, t.node_indexes[node]),
                   !.node_indexes = MapRemove(@, node)]
    ELSE t

TableRemoveSilent(t, node) ==
    IF node \in DOMAIN t.node_indexes
    THEN LET index == t.node_indexes[node]
             rest == MapRemove(t.node_indexes, node)
             items1 == SwapRemove(t.items, index)
             moved_index == Len(items1)
         IN  [t EXCEPT !.items = items1,
                       !.node_indexes =
                           IF moved_index # index
                           THEN [m \in DOMAIN rest |->
                                    IF rest[m] = moved_index THEN index ELSE rest[m]]
                           ELSE rest]
    ELSE t

TableRemove(t, node) ==
    IF node \in DOMAIN t.node_indexes
    THEN LET index == t.node_indexes[node]
             rest == MapRemove(t.node_indexes, node)
             items1 == SwapRemove(t.items, index)
             moved_index == Len(items1)
         IN  [t EXCEPT !.events = Append(@, Removed(node)),
                       !.items = items1,
                       !.node_indexes =
                           IF moved_index # index
                           THEN [m \in DOMAIN rest |->
                                    IF rest[m] = moved_index THEN index ELSE rest[m]]
                           ELSE rest]
    ELSE t

TableClearEvents(t) == [t EXCEPT !.events = <<>>]

\* ------------------------------------------------------------ the registry

\* A call's effect on the two RefCells and how it ended: "ok", or the panic
\* that aborted it (already borrowed / index out of bounds / failed downcast).
Reg(ci, ct, outcome) == [ci |-> ci, ct |-> ct, outcome |-> outcome]

\* component_tables.borrow()[index].as_any().downcast_ref::<ComponentTable<T>>().unwrap()
Slot(ct, index, T) ==
    IF index >= Len(ct) THEN "panic_index"
    ELSE IF ct[index + 1].ty # T THEN "panic_downcast"
    ELSE "ok"

ComponentIndex(ci, T) == IF T \in DOMAIN ci THEN Some(ci[T]) ELSE None

\* Scene::add. g is the number of outstanding shared borrows of
\* component_tables: borrow() succeeds beside them, borrow_mut() panics.
SceneAdd(ci, ct, g, T, node, value) ==
    LET hit == ComponentIndex(ci, T) # None
        index == IF hit THEN ci[T] ELSE Len(ct)
        ci1 == IF hit THEN ci ELSE MapInsert(ci, T, index)
        ct1 == IF hit \/ g > 0 THEN ct ELSE Append(ct, NewTable(T))
    IN  IF g > 0 THEN Reg(ci1, ct, "panic_borrow")
        ELSE IF Slot(ct1, index, T) # "ok" THEN Reg(ci1, ct1, Slot(ct1, index, T))
        ELSE Reg(ci1, [ct1 EXCEPT ![index + 1] = TableAdd(@, node, value)], "ok")

\* Scene::get: the outcome and the Option<T> returned.
SceneGet(ci, ct, T, node) ==
    IF ComponentIndex(ci, T) = None THEN [outcome |-> "ok", value |-> None]
    ELSE IF Slot(ct, ci[T], T) # "ok"
         THEN [outcome |-> Slot(ct, ci[T], T), value |-> None]
         ELSE [outcome |-> "ok", value |-> TableGet(ct[ci[T] + 1], node)]

SceneSetCreating(ci, ct, g, T, node, value) ==
    IF g > 0 THEN Reg(ci, ct, "panic_borrow")
    ELSE IF ComponentIndex(ci, T) = None
    THEN Reg(MapInsert(ci, T, Len(ct)), Append(ct, NewTable(T)), "ok")
    ELSE IF Slot(ct, ci[T], T) # "ok" THEN Reg(ci, ct, Slot(ct, ci[T], T))
    ELSE Reg(ci, [ct EXCEPT ![ci[T] + 1] = TableSet(@, node, value)], "ok")

\* Scene::set
SceneSet(ci, ct, g, T, node, value) ==
    IF ComponentIndex(ci, T) = None THEN Reg(ci, ct, "ok")
    ELSE IF g > 0 THEN Reg(ci, ct, "panic_borrow")
    ELSE IF Slot(ct, ci[T], T) # "ok" THEN Reg(ci, ct, Slot(ct, ci[T], T))
    ELSE Reg(ci, [ct EXCEPT ![ci[T] + 1] = TableSet(@, node, value)], "ok")

SceneSetOrAddOnlyAdd(ci, ct, g, T, node, value) ==
    SceneAdd(ci, ct, g, T, node, value)

SceneSetOrAddAlways(ci, ct, g, T, node, value) ==
    LET r == SceneAdd(ci, ct, g, T, node, value)
    IN  IF r.outcome # "ok" THEN r
        ELSE Reg(r.ci, [r.ct EXCEPT ![r.ci[T] + 1] = TableSetAlways(@, node, value)],
                 "ok")

\* Scene::set_or_add: add, then set unless add panicked.
SceneSetOrAdd(ci, ct, g, T, node, value) ==
    LET r == SceneAdd(ci, ct, g, T, node, value)
    IN  IF r.outcome # "ok" THEN r ELSE SceneSet(r.ci, r.ct, g, T, node, value)

\* Scene::remove
SceneRemove(ci, ct, g, T, node) ==
    IF ComponentIndex(ci, T) = None THEN Reg(ci, ct, "ok")
    ELSE IF g > 0 THEN Reg(ci, ct, "panic_borrow")
    ELSE IF Slot(ct, ci[T], T) # "ok" THEN Reg(ci, ct, Slot(ct, ci[T], T))
    ELSE Reg(ci, [ct EXCEPT ![ci[T] + 1] = TableRemove(@, node)], "ok")

\* Scene::events: the outcome and the slice the returned guard shows.
SceneEvents(ci, ct, T) ==
    IF ComponentIndex(ci, T) = None THEN [outcome |-> "ok", log |-> <<>>]
    ELSE IF Slot(ct, ci[T], T) # "ok"
         THEN [outcome |-> Slot(ct, ci[T], T), log |-> <<>>]
         ELSE [outcome |-> "ok", log |-> ct[ci[T] + 1].events]

SceneClearEventsFirst(ci, ct, g) ==
    IF g > 0 THEN Reg(ci, ct, "panic_borrow")
    ELSE Reg(ci, [i \in DOMAIN ct |-> IF i = 1 THEN TableClearEvents(ct[i]) ELSE ct[i]],
             "ok")

\* Scene::clear_events
SceneClearEvents(ci, ct, g) ==
    IF g > 0 THEN Reg(ci, ct, "panic_borrow")
    ELSE Reg(ci, [i \in DOMAIN ct |-> TableClearEvents(ct[i])], "ok")

\* ----------------------------------------------------------- the hierarchy

Hier(ps, cs) == [parents |-> ps, children |-> cs]

\* The position of the first occurrence of node in s, 0 when there is none.
FirstIndex(s, node) ==
    IF \E i \in DOMAIN s : s[i] = node
    THEN CHOOSE i \in DOMAIN s : s[i] = node /\ \A j \in 1..(i - 1) : s[j] # node
    ELSE 0

RemoveParentKeepEdge(ps, cs, node) ==
    IF node \in DOMAIN ps THEN Hier(MapRemove(ps, node), cs) ELSE Hier(ps, cs)

\* Scene::remove_parent
RemoveParent(ps, cs, node) ==
    IF node \in DOMAIN ps
    THEN LET parent == ps[node]
             i == IF parent \in DOMAIN cs THEN FirstIndex(cs[parent], node) ELSE 0
         IN  Hier(MapRemove(ps, node),
                  IF i > 0 THEN [cs EXCEPT ![parent] = VecRemove(@, i - 1)] ELSE cs)
    ELSE Hier(ps, cs)

RECURSIVE ChainHas(_, _, _)
\* The loop of Scene::set_parent: node is root, or on root's ancestor chain.
ChainHas(ps, root, node) ==
    IF root = node THEN TRUE
    ELSE IF root \in DOMAIN ps THEN ChainHas(ps, ps[root], node)
    ELSE FALSE

WouldCycleSelfOnly(ps, node, parent) == node = parent

WouldCycle(ps, node, parent) == ChainHas(ps, parent, node)

SetParentOpDetachFirst(ns, ps, cs, node, parent) ==
    IF node \notin ns \/ parent \notin ns
    THEN [outcome |-> "not_live", h |-> Hier(ps, cs)]
    ELSE LET h1 == RemoveParent(ps, cs, node)
             cs1 == IF parent \in DOMAIN h1.children
                    THEN h1.children
                    ELSE MapInsert(h1.children, parent, <<>>)
         IN  IF WouldCycle(ps, node, parent)
             THEN [outcome |-> "cycle", h |-> h1]
             ELSE [outcome |-> "ok",
                   h |-> Hier(MapInsert(h1.parents, node, parent),
                              [cs1 EXCEPT ![parent] = Append(@, node)])]

SetParentOpNoDetach(ns, ps, cs, node, parent) ==
    IF node \notin ns \/ parent \notin ns
    THEN [outcome |-> "not_live", h |-> Hier(ps, cs)]
    ELSE IF WouldCycle(ps, node, parent)
    THEN [outcome |-> "cycle", h |-> Hier(ps, cs)]
    ELSE LET cs1 == IF parent \in DOMAIN cs THEN cs ELSE MapInsert(cs, parent, <<>>)
         IN  [outcome |-> "ok",
              h |-> Hier(MapInsert(ps, node, parent),
                         [cs1 EXCEPT ![parent] = Append(@, node)])]

\* Scene::set_parent: the outcome and the hierarchy it leaves.
SetParentOp(ns, ps, cs, node, parent) ==
    IF node \notin ns \/ parent \notin ns
    THEN [outcome |-> "not_live", h |-> Hier(ps, cs)]
    ELSE IF WouldCycle(ps, node, parent)
    THEN [outcome |-> "cycle", h |-> Hier(ps, cs)]
    ELSE LET h1 == RemoveParent(ps, cs, node)
             cs1 == IF parent \in DOMAIN h1.children
                    THEN h1.children
                    ELSE MapInsert(h1.children, parent, <<>>)
         IN  [outcome |-> "ok",
              h |-> Hier(MapInsert(h1.parents, node, parent),
                         [cs1 EXCEPT ![parent] = Append(@, node)])]

\* ----------------------------------------------------------------- despawn

RECURSIVE DespawnInternal(_, _)
RECURSIVE DespawnEach(_, _)
DespawnInternalPreOrder(st, node) ==
    IF node \notin st.nodes THEN st
    ELSE LET kids == IF node \in DOMAIN st.children THEN st.children[node] ELSE <<>>
             s1 == [st EXCEPT !.nodes = @ \ {node},
                              !.children = MapRemove(@, node),
                              !.tables = [i \in DOMAIN @ |-> TableRemove(@[i], node)],
                              !.parents = MapRemove(@, node)]
         IN  DespawnEach(s1, kids)

\* Scene::despawn_internal on st = [nodes, parents, children, tables].
DespawnInternal(st, node) ==
    IF node \notin st.nodes THEN st
    ELSE LET kids == IF node \in DOMAIN st.children THEN st.children[node] ELSE <<>>
             s1 == [st EXCEPT !.nodes = @ \ {node},
                              !.children = MapRemove(@, node)]
             s2 == DespawnEach(s1, kids)
         IN  [s2 EXCEPT !.tables = [i \in DOMAIN @ |-> TableRemove(@[i], node)],
                        !.parents = MapRemove(@, node)]

\* The for loop over the removed child list.
DespawnEach(st, kids) ==
    IF kids = <<>> THEN st
    ELSE DespawnEach(DespawnInternal(st, Head(kids)), Tail(kids))

\* Scene::despawn for a live node with no guard outstanding:
\* despawn_internal, then remove_parent on what it left.
DespawnOp(ns, ps, cs, ct, node) ==
    LET st == DespawnInternal([nodes |-> ns, parents |-> ps,
                               children |-> cs, tables |-> ct], node)
        h == RemoveParent(st.parents, st.children, node)
    IN  [st EXCEPT !.parents = h.parents, !.children = h.children]

\* ----------------------------------------------------------------- systems

\* Mat4, restricted to the x axis: the matrix [[a, b], [0, 1]] that scales by a
\* and then translates by b.
Mat(a, b) == [a |-> a, b |-> b]

\* Mat4::IDENTITY, LocalTransform::IDENTITY and WorldTransform::IDENTITY
MatIdentity == Mat(1, 0)

\* LocalTransform with the x components of position and scale; the rotation
\* is Quat::IDENTITY.
LocalTransform(position, scale) == [position |-> position, scale |-> scale]

LocalIdentity == LocalTransform(0, 1)

\* Mat4 * Mat4
MatMul(m, n) == Mat(m.a * n.a, m.a * n.b + m.b)

\* Mat4::from_scale_rotation_translation(scale, Quat::IDENTITY, position)
FromScaleRotationTranslation(t) == Mat(t.scale, t.position)

\* get_root_nodes: the live nodes with no parent entry.
RootNodes(ns, ps) == {n \in ns : n \notin DOMAIN ps}

\* The orders in which the iterator over the IntSet may yield the set S.
Orders(S) ==
    {o \in [1..Cardinality(S) -> S] : \A i, j \in DOMAIN o : i # j => o[i] # o[j]}

\* get_children(node).into_iter().flatten()
ChildList(cs, node) == IF node \in DOMAIN cs THEN cs[node] ELSE <<>>

ResolveVisibilityReset(own, parent_visibility) ==
    IF own = Some("Visible") THEN "Visible"
    ELSE IF own = Some("Invisible") THEN "Invisible"
    ELSE IF own = Some("Inherit") THEN parent_visibility
    ELSE "Visible"

\* The match of compute_visibility_internal on get::<Visibility>(node).
ResolveVisibility(own, parent_visibility) ==
    IF own = Some("Inherit") THEN parent_visibility
    ELSE IF own = Some("Visible") THEN "Visible"
    ELSE IF own = Some("Invisible") THEN "Invisible"
    ELSE parent_visibility

RECURSIVE VisibilityInternal(_, _, _, _, _)
RECURSIVE VisibilityEach(_, _, _, _, _)
\* compute_visibility_internal on the registry r = Reg(ci, ct, outcome); a
\* panic ends the traversal.
VisibilityInternal(r, g, cs, node, parent_visibility) ==
    IF r.outcome # "ok" THEN r
    ELSE LET own == SceneGet(r.ci, r.ct, "Visibility", node)
             visibility == ResolveVisibility(own.value, parent_visibility)
         IN  IF own.outcome # "ok" THEN Reg(r.ci, r.ct, own.outcome)
             ELSE VisibilityEach(
                      SceneSetOrAdd(r.ci, r.ct, g, "ComputedVisibility",
                                    node, visibility),
                      g, cs, ChildList(cs, node), visibility)

\* The loop over the children of compute_visibility_internal, and the loop
\* over the roots of compute_visibility.
VisibilityEach(r, g, cs, list, visibility) ==
    IF list = <<>> THEN r
    ELSE VisibilityEach(VisibilityInternal(r, g, cs, Head(list), visibility),
                        g, cs, Tail(list), visibility)

\* compute_visibility, the roots taken in the given order.
ComputeVisibilityOp(ci, ct, g, cs, roots) ==
    VisibilityEach(Reg(ci, ct, "ok"), g, cs, roots, "Visible")

\* What compute_world_transform_internal hands to the children of a node
\* that has no LocalTransform.
TransformWithoutLocal(parent_transform) == MatIdentity

RECURSIVE WorldTransformInternal(_, _, _, _, _)
RECURSIVE WorldTransformEach(_, _, _, _, _)
\* compute_world_transform_internal
WorldTransformInternal(r, g, cs, node, parent_transform) ==
    IF r.outcome # "ok" THEN r
    ELSE LET own == SceneGet(r.ci, r.ct, "LocalTransform", node)
             transform ==
                 IF own.value # None
                 THEN MatMul(parent_transform,
                             FromScaleRotationTranslation(own.value[1]))
                 ELSE TransformWithoutLocal(parent_transform)
             r1 == IF own.value # None
                   THEN SceneSetOrAdd(r.ci, r.ct, g, "WorldTransform", node, transform)
                   ELSE r
         IN  IF own.outcome # "ok" THEN Reg(r.ci, r.ct, own.outcome)
             ELSE WorldTransformEach(r1, g, cs, ChildList(cs, node), transform)

\* The loops over the children and over the roots.
WorldTransformEach(r, g, cs, list, transform) ==
    IF list = <<>> THEN r
    ELSE WorldTransformEach(WorldTransformInternal(r, g, cs, Head(list), transform),
                            g, cs, Tail(list), transform)

\* compute_world_transform, the roots taken in the given order.
ComputeWorldTransformOp(ci, ct, g, cs, roots) ==
    WorldTransformEach(Reg(ci, ct, "ok"), g, cs, roots, MatIdentity)

\* ------------------------------------------------------------- the calls

\* The two threads of the allocator specification: thread 1 owns the scene,
\* thread 2 the second scene.
Threads == {1, 2}

\* ALLOCATOR.fetch_add(1, Relaxed): the value stored back.
FetchAddLost(a) == a

FetchAddRecycle(a) == IF a = 2 THEN 1 ELSE a + 1

FetchAdd(a) == a + 1

\* The handles a caller can hold: Node has no public constructor, so every
\* handle was returned by some spawn of the process.
Handles == 1..(ALLOCATOR - 1)

ValuesOf(T) ==
    IF T = "u32" THEN {17, 192}
    ELSE IF T = "Visibility" THEN {"Inherit", "Visible", "Invisible"}
    ELSE IF T = "ComputedVisibility" THEN {"Visible", "Invisible"}
    ELSE {}

\* The writes the callers of the component specification make, as
\* <<type, value>>: the test suite's two u32 values.
CompWrites == {<<"u32", 17>>, <<"u32", 192>>}

\* The writes of the borrow specification: a second type shares the registry.
BorrowWrites == {<<"u32", 17>>, <<"u32", 192>>, <<"Visibility", "Visible">>}

\* The writes of the cascade specification.
CascadeWrites == {<<"u32", 17>>}

\* The writes of the visibility specification.
VisWrites == {<<"Visibility", v>> : v \in {"Inherit", "Visible", "Invisible"}}

\* The writes of the transform specification: the identity, a translation
\* and a scaling (which do not commute).
XformWrites ==
    {<<"LocalTransform", t>> :
        t \in {LocalIdentity, LocalTransform(1, 1), LocalTransform(0, 2)}}

\* The writes of the frame specification: a translation and a scaling.
FrameWrites ==
    {<<"LocalTransform", LocalTransform(1, 1)>>,
     <<"LocalTransform", LocalTransform(0, 2)>>}

TypesOf(writes) == {w[1] : w \in writes}

Call(op, ty, node, arg, value, outcome) ==
    [op |-> op, ty |-> ty, node |-> node, arg |-> arg, value |-> value,
     outcome |-> outcome]

LogsBounded(ct) == \A i \in DOMAIN ct : Len(ct[i].events) <= MaxEvents

Init ==
    /\ ALLOCATOR = 1
    /\ nodes = {}
    /\ parents = EmptyMap
    /\ children = EmptyMap
    /\ component_indexes = EmptyMap
    /\ component_tables = <<>>
    /\ guards = 0
    /\ other_nodes = {}
    /\ fetched = [t \in Threads |-> 0]
    /\ issued = <<>>
    /\ last = Call("new", "", 0, 0, None, "ok")

\* Scene::spawn, while the allocator has handed out fewer than limit nodes.
Spawn(limit) ==
    /\ ALLOCATOR <= limit
    /\ ALLOCATOR' = FetchAdd(ALLOCATOR)
    /\ nodes' = nodes \cup {ALLOCATOR}
    /\ issued' = Append(issued, ALLOCATOR)
    /\ last' = Call("spawn", "", ALLOCATOR, 0, None, "ok")
    /\ UNCHANGED <<parents, children, component_indexes, component_tables,
                   guards, other_nodes, fetched>>

\* Scene::spawn on the second scene.
OtherSpawn(limit) ==
    /\ ALLOCATOR <= limit
    /\ ALLOCATOR' = FetchAdd(ALLOCATOR)
    /\ other_nodes' = other_nodes \cup {ALLOCATOR}
    /\ issued' = Append(issued, ALLOCATOR)
    /\ last' = Call("other_spawn", "", ALLOCATOR, 0, None, "ok")
    /\ UNCHANGED <<nodes, parents, children, component_indexes, component_tables,
                   guards, fetched>>

\* Scene::despawn
Despawn ==
    \E node \in Handles :
        LET st == DespawnOp(nodes, parents, children, component_tables, node)
        IN  /\ IF node \notin nodes
               THEN /\ last' = Call("despawn", "", node, 0, None, "not_live")
                    /\ UNCHANGED <<nodes, parents, children, component_tables>>
               ELSE IF guards > 0
               THEN /\ last' = Call("despawn", "", node, 0, None, "panic_borrow")
                    /\ UNCHANGED <<nodes, parents, children, component_tables>>
               ELSE /\ last' = Call("despawn", "", node, 0, None, "ok")
                    /\ nodes' = st.nodes
                    /\ parents' = st.parents
                    /\ children' = st.children
                    /\ component_tables' = st.tables
                    /\ LogsBounded(component_tables')
            /\ UNCHANGED <<ALLOCATOR, component_indexes, guards, other_nodes,
                           fetched, issued>>

\* Scene::set_parent
SetParent ==
    \E node \in Handles, parent \in Handles :
        LET r == SetParentOp(nodes, parents, children, node, parent)
        IN  /\ parents' = r.h.parents
            /\ children' = r.h.children
            /\ last' = Call("set_parent", "", node, parent, None, r.outcome)
            /\ UNCHANGED <<ALLOCATOR, nodes, component_indexes, component_tables,
                           guards, other_nodes, fetched, issued>>

\* Scene::remove_parent
RemoveParentCall ==
    \E node \in Handles :
        LET h == RemoveParent(parents, children, node)
        IN  /\ parents' = h.parents
            /\ children' = h.children
            /\ last' = Call("remove_parent", "", node, 0, None, "ok")
            /\ UNCHANGED <<ALLOCATOR, nodes, component_indexes, component_tables,
                           guards, other_nodes, fetched, issued>>

\* What a component call leaves in the two RefCells.
Registry(r) ==
    /\ component_indexes' = r.ci
    /\ component_tables' = r.ct
    /\ LogsBounded(r.ct)
    /\ UNCHANGED <<ALLOCATOR, nodes, parents, children, guards, other_nodes,
                   fetched, issued>>

\* Scene::add
Add(writes) ==
    \E w \in writes, node \in Handles :
        LET r == SceneAdd(component_indexes, component_tables, guards,
                          w[1], node, w[2])
        IN  /\ Registry(r)
            /\ last' = Call("add", w[1], node, 0, Some(w[2]), r.outcome)

\* Scene::set
Set(writes) ==
    \E w \in writes, node \in Handles :
        LET r == SceneSet(component_indexes, component_tables, guards,
                          w[1], node, w[2])
        IN  /\ Registry(r)
            /\ last' = Call("set", w[1], node, 0, Some(w[2]), r.outcome)

\* Scene::set_or_add
SetOrAdd(writes) ==
    \E w \in writes, node \in Handles :
        LET r == SceneSetOrAdd(component_indexes, component_tables, guards,
                               w[1], node, w[2])
        IN  /\ Registry(r)
            /\ last' = Call("set_or_add", w[1], node, 0, Some(w[2]), r.outcome)

\* Scene::remove
Remove(Ts) ==
    \E T \in Ts, node \in Handles :
        LET r == SceneRemove(component_indexes, component_tables, guards, T, node)
        IN  /\ Registry(r)
            /\ last' = Call("remove", T, node, 0, None, r.outcome)

\* Scene::get
Get(Ts) ==
    \E T \in Ts, node \in Handles :
        LET r == SceneGet(component_indexes, component_tables, T, node)
        IN  /\ last' = Call("get", T, node, 0, r.value, r.outcome)
            /\ UNCHANGED <<ALLOCATOR, nodes, parents, children, component_indexes,
                           component_tables, guards, other_nodes, fetched, issued>>

\* Scene::events: a call that returns leaves its guard with the caller.
Events(Ts) ==
    \E T \in Ts :
        LET r == SceneEvents(component_indexes, component_tables, T)
        IN  /\ guards < MaxGuards
            /\ guards' = IF r.outcome = "ok" THEN guards + 1 ELSE guards
            /\ last' = Call("events", T, 0, 0, None, r.outcome)
            /\ UNCHANGED <<ALLOCATOR, nodes, parents, children, component_indexes,
                           component_tables, other_nodes, fetched, issued>>

\* The caller drops a guard that events returned.
DropGuard ==
    /\ guards > 0
    /\ guards' = guards - 1
    /\ last' = Call("drop_guard", "", 0, 0, None, "ok")
    /\ UNCHANGED <<ALLOCATOR, nodes, parents, children, component_indexes,
                   component_tables, other_nodes, fetched, issued>>

\* Scene::clear_events
ClearEvents ==
    LET r == SceneClearEvents(component_indexes, component_tables, guards)
    IN  /\ Registry(r)
        /\ last' = Call("clear_events", "", 0, 0, None, r.outcome)

\* ------------------------------------------------- the component specification

\* One scene and its component calls on live and despawned handles, with no
\* guard outstanding.
NextComp ==
    \/ Spawn(CompNodes)
    \/ Despawn
    \/ Add(CompWrites)
    \/ Set(CompWrites)
    \/ SetOrAdd(CompWrites)
    \/ Remove(TypesOf(CompWrites))
    \/ ClearEvents

SpecComp == Init /\ [][NextComp]_vars

\* ------------------------------------------------------- the log specification

\* The component calls on the handles of few nodes, with room for the event
\* log to take a whole add, set, remove sequence.
NextLog ==
    \/ Spawn(LogNodes)
    \/ Despawn
    \/ Add(CompWrites)
    \/ Set(CompWrites)
    \/ SetOrAdd(CompWrites)
    \/ Remove(TypesOf(CompWrites))
    \/ ClearEvents

SpecLog == Init /\ [][NextLog]_vars

\* ----------------------------------------------------- the table specification

\* The add, set and remove calls on the live nodes of one scene: one table
\* with up to TableNodes entries.
NextTable ==
    \/ Spawn(TableNodes)
    \/ Add(CompWrites)
    \/ Set(CompWrites)
    \/ Remove(TypesOf(CompWrites))
    \/ ClearEvents

SpecTable == Init /\ [][NextTable]_vars

\* --------------------------------------------------- the borrow specification

\* The component calls made while guards returned by events::<T>() may be
\* outstanding; a call that panics is caught by the caller and the scene is
\* used again.
NextBorrow ==
    \/ Spawn(BorrowNodes)
    \/ Add(BorrowWrites)
    \/ Set(BorrowWrites)
    \/ SetOrAdd(BorrowWrites)
    \/ Remove(TypesOf(BorrowWrites))
    \/ Get(TypesOf(BorrowWrites))
    \/ Events(TypesOf(BorrowWrites))
    \/ DropGuard
    \/ ClearEvents

SpecBorrow == Init /\ [][NextBorrow]_vars

\* -------------------------------------------------- the cascade specification

\* One scene with its hierarchy and components: what despawn removes.
NextCascade ==
    \/ Spawn(CascadeNodes)
    \/ SetParent
    \/ Despawn
    \/ Add(CascadeWrites)
    \/ ClearEvents

SpecCascade == Init /\ [][NextCascade]_vars

\* ------------------------------------------------- the hierarchy specification

\* One scene and its hierarchy calls; the handles of a second scene are
\* passed in as well.
NextHier ==
    \/ Spawn(HierNodes)
    \/ OtherSpawn(HierNodes)
    \/ Despawn
    \/ SetParent
    \/ RemoveParentCall

SpecHier == Init /\ [][NextHier]_vars

\* ------------------------------------------------------ the system specifications

\* systems::compute_visibility
ComputeVisibility ==
    \E roots \in Orders(RootNodes(nodes, parents)) :
        LET r == ComputeVisibilityOp(component_indexes, component_tables, guards,
                                     children, roots)
        IN  /\ Registry(r)
            /\ last' = Call("compute_visibility", "", 0, 0, None, r.outcome)

\* systems::compute_world_transform
ComputeWorldTransform ==
    \E roots \in Orders(RootNodes(nodes, parents)) :
        LET r == ComputeWorldTransformOp(component_indexes, component_tables, guards,
                                         children, roots)
        IN  /\ Registry(r)
            /\ last' = Call("compute_world_transform", "", 0, 0, None, r.outcome)

RECURSIVE SetParents(_, _, _, _)
\* set_parent(i, par[i]) for the nodes i..Len(par) in turn, on a scene whose
\* live nodes are ns; par[i] = 0 makes no call.
SetParents(ns, h, par, i) ==
    IF i > Len(par) THEN h
    ELSE SetParents(ns,
                    IF par[i] = 0 THEN h
                    ELSE SetParentOp(ns, h.parents, h.children, i, par[i]).h,
                    par, i + 1)

RECURSIVE AddAll(_, _, _, _)
\* add::<T>(i, value) for the nodes i..Len(values) that values gives a value.
AddAll(r, T, values, i) ==
    IF i > Len(values) THEN r
    ELSE AddAll(IF values[i] = None THEN r
                ELSE SceneAdd(r.ci, r.ct, 0, T, i, values[i][1]),
                T, values, i + 1)

\* A scene as its owner builds it before the first frame (Playground::new):
\* the nodes spawned, then parented, then given their components of type T,
\* and the event logs cleared.
SceneSetup(par, T, values) ==
    LET ns == 1..Len(par)
        h == SetParents(ns, Hier(EmptyMap, EmptyMap), par, 1)
        r == AddAll(Reg(EmptyMap, <<>>, "ok"), T, values, 1)
    IN  /\ ALLOCATOR = Len(par) + 1
        /\ nodes = ns
        /\ parents = h.parents
        /\ children = h.children
        /\ component_indexes = r.ci
        /\ component_tables = SceneClearEvents(r.ci, r.ct, 0).ct
        /\ guards = 0
        /\ other_nodes = {}
        /\ fetched = [t \in Threads |-> 0]
        /\ issued = [n \in ns |-> n]
        /\ last = Call("clear_events", "", 0, 0, None, "ok")

\* The scenes of up to SysNodes nodes, every choice of parents and of values.
Setups(T, choices) ==
    \E k \in 1..SysNodes :
        \E par \in [1..k -> 0..k], values \in [1..k -> {None} \cup {Some(v) : v \in choices}] :
            SceneSetup(par, T, values)

\* A scene set up with its Visibility components, then the visibility pass
\* between despawns and clear_events calls.
InitVis == Setups("Visibility", {w[2] : w \in VisWrites})

NextVis ==
    \/ ComputeVisibility
    \/ Despawn
    \/ ClearEvents

SpecVis == InitVis /\ [][NextVis]_vars

\* The same with the LocalTransform components and the transform pass.
InitXform == Setups("LocalTransform", {w[2] : w \in XformWrites})

NextXform ==
    \/ ComputeWorldTransform
    \/ Despawn
    \/ ClearEvents

SpecXform == InitXform /\ [][NextXform]_vars

\* ---------------------------------------------------- the passes specification

\* A scene set up with its Visibility or its LocalTransform components, then
\* both passes, any number of times in a row, between despawns and
\* clear_events calls.
InitPasses == InitVis \/ InitXform

NextPasses ==
    \/ ComputeVisibility
    \/ ComputeWorldTransform
    \/ Despawn
    \/ ClearEvents

SpecPasses == InitPasses /\ [][NextPasses]_vars

\* ----------------------------------------------------- the frame specification

\* A scene that its owner keeps changing between the frames: nodes spawned
\* and parented, LocalTransform components added and removed, and the
\* transform pass run any number of times.
NextFrame ==
    \/ Spawn(FrameNodes)
    \/ SetParent
    \/ Add(FrameWrites)
    \/ Remove(TypesOf(FrameWrites))
    \/ ComputeWorldTransform
    \/ ClearEvents

SpecFrame == Init /\ [][NextFrame]_vars

\* ------------------------------------------------- the allocator specification

\* Node::new on thread t: the atomic fetch_add, before Scene::spawn has
\* inserted the node.
NodeNew(t) ==
    /\ fetched[t] = 0
    /\ ALLOCATOR <= AllocNodes
    /\ fetched' = [fetched EXCEPT ![t] = ALLOCATOR]
    /\ ALLOCATOR' = FetchAdd(ALLOCATOR)
    /\ last' = Call("node_new", "", ALLOCATOR, t, None, "ok")
    /\ UNCHANGED <<nodes, parents, children, component_indexes, component_tables,
                   guards, other_nodes, issued>>

\* The rest of Scene::spawn on thread t: the insert and the return.
SpawnInsert(t) ==
    /\ fetched[t] # 0
    /\ IF t = 1
       THEN nodes' = nodes \cup {fetched[t]} /\ UNCHANGED other_nodes
       ELSE other_nodes' = other_nodes \cup {fetched[t]} /\ UNCHANGED nodes
    /\ issued' = Append(issued, fetched[t])
    /\ fetched' = [fetched EXCEPT ![t] = 0]
    /\ last' = Call("spawn", "", fetched[t], t, None, "ok")
    /\ UNCHANGED <<ALLOCATOR, parents, children, component_indexes,
                   component_tables, guards>>

\* Scene::despawn by thread 1, between its spawns.
SceneDespawn ==
    /\ fetched[1] = 0
    /\ Despawn

\* Scene::despawn by thread 2 on the second scene, which holds no hierarchy
\* and no component: despawn_internal comes down to nodes.remove.
OtherDespawn ==
    /\ fetched[2] = 0
    /\ \E node \in Handles :
          /\ other_nodes' = other_nodes \ {node}
          /\ last' = Call("other_despawn", "", node, 2, None,
                          IF node \in other_nodes THEN "ok" ELSE "not_live")
    /\ UNCHANGED <<ALLOCATOR, nodes, parents, children, component_indexes,
                   component_tables, guards, fetched, issued>>

NextAlloc ==
    \/ \E t \in Threads : NodeNew(t)
    \/ \E t \in Threads : SpawnInsert(t)
    \/ SceneDespawn
    \/ OtherDespawn

SpecAlloc == Init /\ [][NextAlloc]_vars

\* ---------------------------------------------------------------- claims

\* get::<T>(node) as the caller sees it: the value of a call that returns.
GetOf(ci, ct, T, node) == SceneGet(ci, ct, T, node).value

RECURSIVE Subtree(_, _, _)
\* node and the nodes below it along the child lists (get_children), to the
\* given depth.
Subtree(cs, node, depth) ==
    {node} \cup
    IF depth = 0 \/ node \notin DOMAIN cs THEN {}
    ELSE UNION {Subtree(cs, cs[node][i], depth - 1) : i \in DOMAIN cs[node]}

RECURSIVE ReachesUp(_, _, _, _)
\* Following get_parent from `from`, at most fuel times, arrives at target.
ReachesUp(ps, from, target, fuel) ==
    IF fuel = 0 \/ from \notin DOMAIN ps THEN FALSE
    ELSE ps[from] = target \/ ReachesUp(ps, ps[from], target, fuel - 1)

\* C1. Despawn cascade: a despawn(n) of a live node n leaves n and every
\* descendant m of n (the nodes below n along get_children) not contained in
\* the scene and with get::<T>(m) = None for every component type T.
C1_DespawnCascade ==
    [][(last'.op = "despawn" /\ last'.outcome = "ok") =>
        \A m \in Subtree(children, last'.node, ALLOCATOR) :
            /\ m \notin nodes'
            /\ \A T \in Types :
                  GetOf(component_indexes', component_tables', T, m) = None]_vars

\* C2. No dangling hierarchy edges: every node that appears in a child list
\* is live (despawn detaches the node from its parent's child list).
C2_NoDanglingEdges ==
    \A p \in DOMAIN children : \A i \in DOMAIN children[p] : children[p][i] \in nodes

\* C3. A component write (add, set, set_or_add) against a node that is not live
\* returns normally, leaves get::<T>(node) = None and leaves T's event log as
\* it was.
C3_DeadWriteNoEffect ==
    [][(last'.op \in {"add", "set", "set_or_add"} /\ last'.node \notin nodes) =>
        /\ last'.outcome = "ok"
        /\ GetOf(component_indexes', component_tables', last'.ty, last'.node) = None
        /\ SceneEvents(component_indexes', component_tables', last'.ty).log
              = SceneEvents(component_indexes, component_tables, last'.ty).log]_vars

\* C4. The hierarchy is acyclic: following get_parent from a node never
\* returns to that node.
C4_Acyclic == \A n \in DOMAIN parents : ~ReachesUp(parents, n, n, ALLOCATOR)

\* C4 witness: set_parent was refused because the node is a proper ancestor,
\* two levels up, of the parent asked for.
C4_CycleRefused ==
    /\ last.op = "set_parent"
    /\ last.outcome = "cycle"
    /\ last.arg \in DOMAIN parents
    /\ parents[last.arg] # last.node
    /\ ReachesUp(parents, last.arg, last.node, ALLOCATOR)

Range(s) == {s[i] : i \in DOMAIN s}

\* C5. Identity uniqueness: over spawns and despawns on two scenes that share
\* the allocator, no two spawns returned the same node, and every node that is
\* or was live is one of the nodes returned.
C5_UniqueIds ==
    /\ \A i, j \in DOMAIN issued : i # j => issued[i] # issued[j]
    /\ nodes \cup other_nodes \subseteq Range(issued)
    /\ nodes \cap other_nodes = {}

\* C5 witness: both scenes hold a node, a node returned earlier has been
\* despawned, and a spawn returned after it the node of an earlier fetch_add
\* than the spawn before it (the two spawns overlapped).
C5_InterleavedRespawn ==
    /\ last.op = "spawn"
    /\ nodes # {}
    /\ other_nodes # {}
    /\ \E i \in DOMAIN issued : issued[i] \notin nodes \cup other_nodes
    /\ \E i \in DOMAIN issued : i > 1 /\ issued[i] < issued[i - 1]

RECURSIVE ChainTransform(_, _, _, _, _)
\* The composition, from the root down to node, of the local transforms of
\* the nodes on node's ancestor chain (node included) that have one.
ChainTransform(ps, ci, ct, node, fuel) ==
    LET above == IF node \in DOMAIN ps /\ fuel > 0
                 THEN ChainTransform(ps, ci, ct, ps[node], fuel - 1)
                 ELSE MatIdentity
        own == GetOf(ci, ct, "LocalTransform", node)
    IN  IF own = None THEN above
        ELSE MatMul(above, FromScaleRotationTranslation(own[1]))

\* C6. World-transform transparency: after compute_world_transform every live
\* node with a LocalTransform has the WorldTransform composed, root first, of
\* the local transforms of the nodes of its ancestor chain that have one; an
\* ancestor without a LocalTransform passes its parent's matrix through.
C6_WorldTransformTransparent ==
    (last.op = "compute_world_transform" /\ last.outcome = "ok") =>
        \A n \in nodes :
            GetOf(component_indexes, component_tables, "LocalTransform", n) # None =>
                GetOf(component_indexes, component_tables, "WorldTransform", n)
                    = Some(ChainTransform(parents, component_indexes,
                                          component_tables, n, ALLOCATOR))

\* C7. Visibility propagation: after compute_visibility every live node has a
\* ComputedVisibility: its own Visibility when that is Visible or Invisible,
\* else the ComputedVisibility of its parent, or Visible for a root.
C7_VisibilityPropagation ==
    (last.op = "compute_visibility" /\ last.outcome = "ok") =>
        \A n \in nodes :
            LET own == GetOf(component_indexes, component_tables, "Visibility", n)
                computed == GetOf(component_indexes, component_tables,
                                  "ComputedVisibility", n)
            IN  IF own = Some("Visible") THEN computed = Some("Visible")
                ELSE IF own = Some("Invisible") THEN computed = Some("Invisible")
                ELSE IF n \in DOMAIN parents
                THEN /\ computed # None
                     /\ computed = GetOf(component_indexes, component_tables,
                                         "ComputedVisibility", parents[n])
                ELSE computed = Some("Visible")

\* C7 witness: after the pass a node with no Visibility component has taken
\* Invisible from its parent and its own child, set to Inherit, has it too.
C7_InheritedThroughBareNode ==
    /\ last.op = "compute_visibility"
    /\ \E n \in nodes, m \in nodes :
          /\ n \in DOMAIN parents
          /\ m \in DOMAIN parents
          /\ parents[m] = n
          /\ GetOf(component_indexes, component_tables, "Visibility", n) = None
          /\ GetOf(component_indexes, component_tables, "Visibility", m)
                = Some("Inherit")
          /\ GetOf(component_indexes, component_tables, "ComputedVisibility", m)
                = Some("Invisible")

\* C8. Registry binding: every type in the type index maps to a slot below the
\* number of tables, that slot holds the table of that type, and no two types
\* share a slot; also in the state an aborted add leaves behind.
C8_RegistryBinding ==
    /\ \A T \in DOMAIN component_indexes :
          /\ component_indexes[T] < Len(component_tables)
          /\ component_tables[component_indexes[T] + 1].ty = T
    /\ \A T1, T2 \in DOMAIN component_indexes :
          T1 # T2 => component_indexes[T1] # component_indexes[T2]

\* What the tables store: every table's values and event log.
Stored(ct) == [i \in DOMAIN ct |-> [node_indexes |-> ct[i].node_indexes,
                                    items |-> ct[i].items,
                                    events |-> ct[i].events]]

\* C9. Borrow conflict: while a guard returned by events is outstanding, an
\* add, set_or_add or clear_events call, and a set or remove call on a type
\* that has a table, panics and changes no table's values or log; get and
\* events calls return normally.
C9_BorrowConflict ==
    [][guards > 0 =>
        /\ (\/ last'.op \in {"add", "set_or_add", "clear_events"}
            \/ /\ last'.op \in {"set", "remove"}
               /\ last'.ty \in DOMAIN component_indexes) =>
              /\ last'.outcome = "panic_borrow"
              /\ Stored(component_tables') = Stored(component_tables)
        /\ last'.op \in {"get", "events"} => last'.outcome = "ok"]_vars

\* C10. Event log content and order: the log that events::<T>() returns grows
\* by Added(n) at an add that inserts, by Modified(n) at a set that changes
\* the stored value, by Removed(n) at a remove (by the call or by despawn) of
\* a present component, by nothing at any other call, and is emptied by
\* clear_events.
C10_EventLog ==
    [][LET T == "u32"
           n == last'.node
           log == SceneEvents(component_indexes, component_tables, T).log
           log1 == SceneEvents(component_indexes', component_tables', T).log
           had == GetOf(component_indexes, component_tables, T, n)
       IN  CASE last'.op = "add" ->
                    log1 = IF had = None THEN Append(log, Added(n)) ELSE log
             [] last'.op = "set" ->
                    log1 = IF had # None /\ had # last'.value
                           THEN Append(log, Modified(n)) ELSE log
             [] last'.op = "set_or_add" ->
                    log1 = IF had = None THEN Append(log, Added(n))
                           ELSE IF had # last'.value THEN Append(log, Modified(n))
                           ELSE log
             [] last'.op \in {"remove", "despawn"} ->
                    log1 = IF had # None /\ last'.outcome = "ok"
                           THEN Append(log, Removed(n)) ELSE log
             [] last'.op = "clear_events" -> log1 = <<>>
             [] OTHER -> log1 = log]_vars

\* C10 witness: add, set to another value and remove on one node left
\* [Added, Modified, Removed] in the log.
C10_AddedModifiedRemoved ==
    /\ last.op = "remove"
    /\ SceneEvents(component_indexes, component_tables, "u32").log
          = <<Added(last.node), Modified(last.node), Removed(last.node)>>

\* Everything of the scene but the record of the last call.
SceneUnchanged ==
    UNCHANGED <<ALLOCATOR, nodes, parents, children, component_indexes,
                component_tables, guards, other_nodes, fetched, issued>>

\* C11. Idempotent set: set(node, v) on a node whose stored component equals
\* v, on a node without the component and on a type without a table returns
\* normally, appends no event and changes nothing of the scene.
C11_IdempotentSet ==
    [][LET had == GetOf(component_indexes, component_tables, last'.ty, last'.node)
       IN  (last'.op = "set" /\ (had = None \/ had = last'.value)) =>
               /\ last'.outcome = "ok"
               /\ SceneUnchanged]_vars

\* C11 witness: add(node, v) then set(node, v) left the one Added event.
C11_SetSameValue ==
    /\ last.op = "set"
    /\ GetOf(component_indexes, component_tables, last.ty, last.node) = last.value
    /\ SceneEvents(component_indexes, component_tables, last.ty).log
          = <<Added(last.node)>>

\* C12. First write wins: add(node, v) on a node that has a component of the
\* type leaves the stored value as it was and appends no event.
C12_FirstWriteWins ==
    [][LET had == GetOf(component_indexes, component_tables, last'.ty, last'.node)
       IN  (last'.op = "add" /\ had # None) =>
               /\ GetOf(component_indexes', component_tables', last'.ty, last'.node)
                     = had
               /\ SceneEvents(component_indexes', component_tables', last'.ty).log
                     = SceneEvents(component_indexes, component_tables, last'.ty).log]_vars

\* C12 witness: an add of another value than the stored one was made and the
\* first value is still stored.
C12_SecondAddIgnored ==
    /\ last.op = "add"
    /\ GetOf(component_indexes, component_tables, last.ty, last.node) # None
    /\ GetOf(component_indexes, component_tables, last.ty, last.node) # last.value
    /\ SceneEvents(component_indexes, component_tables, last.ty).log
          = <<Added(last.node)>>

\* C13. set_or_add(node, v) is insert-or-update: afterwards get(node) is
\* Some(v), and the call appended Added(node) alone when the component was
\* absent, Modified(node) alone when it was present with another value, and
\* nothing when it was present with v.
C13_SetOrAdd ==
    [][LET T == last'.ty
           n == last'.node
           had == GetOf(component_indexes, component_tables, T, n)
           log == SceneEvents(component_indexes, component_tables, T).log
           log1 == SceneEvents(component_indexes', component_tables', T).log
       IN  last'.op = "set_or_add" =>
               /\ last'.outcome = "ok"
               /\ GetOf(component_indexes', component_tables', T, n) = last'.value
               /\ log1 = IF had = None THEN Append(log, Added(n))
                         ELSE IF had # last'.value THEN Append(log, Modified(n))
                         ELSE log]_vars

\* C13 witness: a set_or_add that inserted, then one that updated.
C13_InsertedThenUpdated ==
    /\ last.op = "set_or_add"
    /\ GetOf(component_indexes, component_tables, last.ty, last.node) = last.value
    /\ SceneEvents(component_indexes, component_tables, last.ty).log
          = <<Added(last.node), Modified(last.node)>>

\* C14. clear_events, called with no guard outstanding, returns normally,
\* leaves the event log of every table empty, and leaves every get::<T>(n),
\* the live nodes and the hierarchy as they were.
C14_ClearEvents ==
    [][(last'.op = "clear_events" /\ guards = 0) =>
        /\ last'.outcome = "ok"
        /\ \A i \in DOMAIN component_tables' : component_tables'[i].events = <<>>
        /\ \A T \in Types :
              /\ SceneEvents(component_indexes', component_tables', T).log = <<>>
              /\ \A n \in Handles :
                    GetOf(component_indexes', component_tables', T, n)
                        = GetOf(component_indexes, component_tables, T, n)
        /\ UNCHANGED <<nodes, parents, children>>]_vars

\* C14 witness: clear_events was called on a scene with a hierarchy and two
\* tables that both store a value.
C14_TwoTablesCleared ==
    /\ last.op = "clear_events"
    /\ parents # EmptyMap
    /\ Len(component_tables) >= 2
    /\ \A i \in DOMAIN component_tables : component_tables[i].items # <<>>

\* C15. Lazy table creation: for a type that no add or set_or_add call was
\* made for (the type has no index entry), get returns None, events returns
\* the empty slice, set and remove return normally, and each of the four
\* leaves the type index and the tables as they were; a step that changes the
\* type index or the number of tables is an add or a set_or_add.
C15_LazyTableCreation ==
    [][/\ (/\ last'.op \in {"get", "events", "set", "remove"}
           /\ last'.ty \notin DOMAIN component_indexes) =>
              /\ last'.outcome = "ok"
              /\ last'.op = "get" => last'.value = None
              /\ last'.op = "events" =>
                    SceneEvents(component_indexes', component_tables', last'.ty).log
                        = <<>>
              /\ UNCHANGED <<component_indexes, component_tables>>
       /\ (\/ component_indexes' # component_indexes
           \/ Len(component_tables') # Len(component_tables)) =>
              last'.op \in {"add", "set_or_add"}]_vars

\* C15 witness: a set was made for a type without an index entry on a scene
\* that has a table of another type, while a guard is outstanding.
C15_SetWithoutTable ==
    /\ last.op = "set"
    /\ last.ty \notin DOMAIN component_indexes
    /\ component_tables # <<>>
    /\ guards > 0

\* C16. A rejected set_parent changes nothing: set_parent(node, parent) with
\* node or parent not live, with node = parent, or with node an ancestor of
\* parent, leaves the parent-of and the children-of maps (every child list
\* and its order) and the rest of the scene as they were.
C16_RejectedSetParent ==
    [][(/\ last'.op = "set_parent"
        /\ \/ last'.node \notin nodes
           \/ last'.arg \notin nodes
           \/ last'.node = last'.arg
           \/ ReachesUp(parents, last'.arg, last'.node, ALLOCATOR)) =>
              /\ last'.outcome \in {"not_live", "cycle"}
              /\ SceneUnchanged]_vars

\* C16 witness: set_parent was refused as a cycle for a node that has a
\* parent, and the node still has it.
C16_RefusedKeepsParent ==
    /\ last.op = "set_parent"
    /\ last.outcome = "cycle"
    /\ last.node \in DOMAIN parents
    /\ FirstIndex(children[parents[last.node]], last.node) > 0

\* The sequence s without its entries equal to x, the others in their order.
Without(s, x) == SelectSeq(s, LAMBDA y : y # x)

C18_ParentChildConsistent ==
    \A c \in DOMAIN parents :
        LET p == parents[c]
        IN  /\ c \in nodes
            /\ p \in nodes
            /\ p \in DOMAIN children
            /\ Cardinality({i \in DOMAIN children[p] : children[p][i] = c}) = 1

\* C18 witness: after a despawn a node has a parent whose child list holds
\* the node and a despawned sibling.
C18_BesideDespawnedSibling ==
    /\ last.op = "despawn"
    /\ last.outcome = "ok"
    /\ \E c \in DOMAIN parents :
          /\ Len(children[parents[c]]) >= 2
          /\ \E i \in DOMAIN children[parents[c]] :
                children[parents[c]][i] \notin nodes

\* C19. A freshly spawned node is a clean root: the node that spawn has just
\* returned is live, has no parent and no child list, is an entry of no child
\* list and has no component of any type, whatever calls on live and
\* despawned handles came before.
C19_FreshNodeClean ==
    last.op = "spawn" =>
        /\ last.node \in nodes
        /\ last.node \notin DOMAIN parents
        /\ last.node \notin DOMAIN children
        /\ \A p \in DOMAIN children : \A i \in DOMAIN children[p] :
              children[p][i] # last.node
        /\ \A T \in Types :
              GetOf(component_indexes, component_tables, T, last.node) = None

\* C19 witness: spawn returned while a despawned handle holds a component and
\* a child list holds a despawned node.
C19_SpawnAmongLeftovers ==
    /\ last.op = "spawn"
    /\ \E m \in Handles \ nodes :
          GetOf(component_indexes, component_tables, "u32", m) # None
    /\ \E p \in DOMAIN children : \E i \in DOMAIN children[p] :
          children[p][i] \notin nodes

\* C20. The table index stays bijective: in every table, node_indexes maps
\* the nodes that have the component one to one onto the slots
\* 0 .. items.len() - 1, also after the swap-removal of a slot that is not
\* the last.
C20_IndexBijective ==
    \A k \in DOMAIN component_tables :
        LET t == component_tables[k]
        IN  /\ \A n \in DOMAIN t.node_indexes :
                  t.node_indexes[n] \in 0..(Len(t.items) - 1)
            /\ \A n, m \in DOMAIN t.node_indexes :
                  n # m => t.node_indexes[n] # t.node_indexes[m]
            /\ Cardinality(DOMAIN t.node_indexes) = Len(t.items)

\* C20 witness: of two components added, the first was removed, and the node
\* added second has moved from slot 1 to slot 0.
C20_SwapRemovedFirst ==
    /\ last.op = "remove"
    /\ \E k \in DOMAIN component_tables : \E b \in Handles :
          /\ b # last.node
          /\ component_tables[k].events
                = <<Added(last.node), Added(b), Removed(last.node)>>
          /\ DOMAIN component_tables[k].node_indexes = {b}
          /\ component_tables[k].node_indexes[b] = 0

\* C21. The table behaves as a plain map from node to value: over the add,
\* set and remove calls on the nodes of one type, every call changes what
\* get returns as it would change a reference map (an add inserts when the
\* node has no value, a set overwrites when it has one, a remove deletes),
\* and leaves the value of every other node as it was.
C21_PlainMap ==
    [][\A n \in 1..(ALLOCATOR' - 1) :
          LET T == "u32"
              held == GetOf(component_indexes, component_tables, T, n)
              hit == last'.ty = T /\ last'.node = n
          IN  GetOf(component_indexes', component_tables', T, n) =
                  IF hit /\ last'.op = "add"
                  THEN IF held = None THEN last'.value ELSE held
                  ELSE IF hit /\ last'.op = "set"
                  THEN IF held = None THEN None ELSE last'.value
                  ELSE IF hit /\ last'.op = "remove"
                  THEN None
                  ELSE held]_vars

\* C21 witness: the component added first was removed and the node added
\* after it, now in the freed slot, still has its own, different value.
C21_OtherValueKept ==
    /\ last.op = "remove"
    /\ \E k \in DOMAIN component_tables : \E b \in Handles :
          /\ b # last.node
          /\ Len(component_tables[k].events) >= 2
          /\ component_tables[k].events[1] = Added(last.node)
          /\ component_tables[k].events[2] = Added(b)
          /\ component_tables[k].items = <<192>>
          /\ GetOf(component_indexes, component_tables, "u32", b) = Some(192)
          /\ GetOf(component_indexes, component_tables, "u32", last.node) = None

\* C22. Despawn-driven removal shows in the event log: a despawn(n) despawns
\* n and the live nodes below it, and extends the log of every table by one
\* Removed(m) for each node m it despawned that had a component in that
\* table, and by nothing else; the component is gone as after remove::<T>(m), and Removed(n) comes
\* after the Removed events of n's descendants.
C22_DespawnLogsRemoved ==
    [][(last'.op = "despawn" /\ last'.outcome = "ok") =>
        /\ nodes \ nodes' = Subtree(children, last'.node, ALLOCATOR) \cap nodes
        /\ DOMAIN component_tables' = DOMAIN component_tables
        /\ \A k \in DOMAIN component_tables :
              LET old == component_tables[k].events
                  new == component_tables'[k].events
                  had == {m \in nodes \ nodes' :
                             m \in DOMAIN component_tables[k].node_indexes}
                  appended == SubSeq(new, Len(old) + 1, Len(new))
              IN  /\ Len(new) = Len(old) + Cardinality(had)
                  /\ SubSeq(new, 1, Len(old)) = old
                  /\ {appended[i] : i \in DOMAIN appended} = {Removed(m) : m \in had}
                  /\ last'.node \in had =>
                        appended[Len(appended)] = Removed(last'.node)
                  /\ \A m \in had :
                        /\ m \notin DOMAIN component_tables'[k].node_indexes
                        /\ component_tables'[k].ty = component_tables[k].ty]_vars

\* C22 witness: a despawn left, in each of two tables, a Removed event of
\* another node and after it the Removed event of the despawned node.
C22_DescendantThenNode ==
    /\ last.op = "despawn"
    /\ last.outcome = "ok"
    /\ Len(component_tables) >= 2
    /\ \A k \in DOMAIN component_tables :
          LET log == component_tables[k].events
          IN  /\ Len(log) >= 2
              /\ log[Len(log)] = Removed(last.node)
              /\ log[Len(log) - 1].kind = "Removed"
              /\ log[Len(log) - 1].node # last.node

\* The registry of a scene that holds the LocalTransform components of
\* (ci, ct) and nothing else.
LocalOnly(ci, ct) ==
    IF ComponentIndex(ci, "LocalTransform") # None
          /\ Slot(ct, ci["LocalTransform"], "LocalTransform") = "ok"
    THEN Reg([T \in {"LocalTransform"} |-> 0], <<ct[ci["LocalTransform"] + 1]>>, "ok")
    ELSE Reg(EmptyMap, <<>>, "ok")

\* compute_world_transform on a scene with the given live nodes, hierarchy
\* and LocalTransform components on which no pass has run before.
FreshPass(ns, ps, cs, ci, ct) ==
    ComputeWorldTransformOp(LocalOnly(ci, ct).ci, LocalOnly(ci, ct).ct, 0, cs,
                            CHOOSE o \in Orders(RootNodes(ns, ps)) : TRUE)

\* C23. compute_world_transform does not depend on the call history: after
\* the pass every live node has the WorldTransform, or none, that the pass
\* gives it on a scene with the same live nodes, hierarchy and LocalTransform
\* components that had no earlier pass; so a live node without a
\* LocalTransform has no WorldTransform.
C23_HistoryIndependent ==
    [][(last'.op = "compute_world_transform" /\ last'.outcome = "ok") =>
        LET fresh == FreshPass(nodes, parents, children,
                               component_indexes, component_tables)
        IN  \A n \in nodes :
                GetOf(component_indexes', component_tables', "WorldTransform", n)
                    = GetOf(fresh.ci, fresh.ct, "WorldTransform", n)]_vars

\* C24. The systems are idempotent per frame: a compute_visibility call made
\* directly after a compute_visibility call, and a compute_world_transform
\* call made directly after a compute_world_transform call, returns normally
\* and leaves every table, its values and its event log, as it was.
C24_PassIdempotent ==
    [][(/\ last'.op \in {"compute_visibility", "compute_world_transform"}
        /\ last.op = last'.op
        /\ last.outcome = "ok") =>
            /\ last'.outcome = "ok"
            /\ UNCHANGED <<component_indexes, component_tables>>]_vars

\* C24 witness: a pass has run over two or more nodes and every event log has
\* room for the events a further pass would append.
C24_PassWithRoom ==
    /\ last.op \in {"compute_visibility", "compute_world_transform"}
    /\ last.outcome = "ok"
    /\ Len(component_tables) = 2
    /\ Len(component_tables[2].items) >= 2
    /\ component_tables[2].ty \in {"ComputedVisibility", "WorldTransform"}
    /\ \A k \in DOMAIN component_tables :
          Len(component_tables[k].events) + Len(component_tables[2].items)
              <= MaxEvents

====
